---- MODULE Spec2Model ----
(***************************************************************************)
(* Model of ipyplot/plotting.py: the three public entry points             *)
(* plot_class_tabs, plot_images and plot_class_representations, called in  *)
(* sequence by one caller on the caller's image and label sequences.       *)
(*                                                                         *)
(* An image is an opaque handle (an integer here); a label is a string or  *)
(* an integer, kept apart by a tag because Python never equates '1' and 1. *)
(* The caller's labels are homogeneous string arrays (the docstrings ask   *)
(* for numpy arrays), the integer labels are the ones plot_images makes.   *)
(* The collaborators imported from .html_helpers and .utils (create_tabs,  *)
(* create_imgs_grid, display_html, get_class_representations) are not part *)
(* of plotting.py; they are modelled from the specification, and the       *)
(* markup they produce is kept as the structure it renders (an ordered     *)
(* list of cells) instead of as text.                                      *)
(***************************************************************************)
EXTENDS Integers, Sequences, FiniteSets, TLC

\* ------------------------------------------------------------------ bounds
\* Longest image / label sequence the caller builds in the general family.
MaxLen == 2
\* Largest explicit max_imgs_per_tab / max_images argument (a count, from 0).
MaxCap == 2
\* Number of calls made in one session.
MaxCalls == 2

\* ------------------------------------------------------- program constants
DEFAULT_MAX_IMGS_PER_TAB == 15
DEFAULT_MAX_IMAGES == 30

VARIABLES images, labels, ignore_default, op, args, after, err, events, html, ncalls

vars == <<images, labels, ignore_default, op, args, after, err, events, html, ncalls>>

\* ----------------------------------------------------------------- values
StrL(s) == [t |-> "str", s |-> s, i |-> 0]
IntL(i) == [t |-> "int", s |-> "", i |-> i]

Some(v) == [some |-> TRUE, v |-> v]
None == [some |-> FALSE, v |-> <<>>]
\* An omitted integer argument.
Omitted == [some |-> FALSE, v |-> 0]

Range(s) == {s[i] : i \in 1..Len(s)}
Min(a, b) == IF a < b THEN a ELSE b

\* Label names of the general family, and the names used for a session with
\* more distinct labels than DEFAULT_MAX_IMAGES.
LabelNames == {"-1", "unknown", "x", "y"}
ManyNames ==
    <<"c01", "c02", "c03", "c04", "c05", "c06", "c07", "c08", "c09", "c10",
      "c11", "c12", "c13", "c14", "c15", "c16", "c17", "c18", "c19", "c20",
      "c21", "c22", "c23", "c24", "c25", "c26", "c27", "c28", "c29", "c30",
      "c31", "c32">>
\* Every label name of the model, in Python's string order
\* ('-' < 'c' < 'u' < 'x' < 'y').
SortedNames == <<"-1">> \o ManyNames \o <<"unknown", "x", "y">>

\* The default of the ignore_list parameter, as the def statement builds it.
DefaultIgnoreList == <<StrL("-1"), StrL("unknown")>>

\* ------------------------------------------------------- Python primitives
\* seq[:n]
Take(s, n) == IF n <= 0 THEN <<>> ELSE SubSeq(s, 1, Min(n, Len(s)))

\* np.asarray of a homogeneous sequence: a new array of the same elements in
\* the same order; the argument itself is left as it is.
asarray(s) == [i \in 1..Len(s) |-> s[i]]

\* list(range(0, n))
range0(n) == [i \in 1..n |-> IntL(i - 1)]

\* images[labels == l]
Masked(imgs, lbls, l) ==
    LET F[k \in 0..Len(imgs)] ==
            IF k = 0 THEN <<>>
            ELSE IF lbls[k] = l THEN Append(F[k - 1], imgs[k]) ELSE F[k - 1]
    IN F[Len(imgs)]

\* np.unique(labels): the distinct labels in sorted order
unique(lbls) ==
    LET present(n) == StrL(n) \in Range(lbls)
        names == SelectSeq(SortedNames, present)
    IN [i \in 1..Len(names) |-> StrL(names[i])]

\* ----------------------------------------------------------- collaborators
Event(fn, imgs, lbls, max) == [fn |-> fn, images |-> imgs, labels |-> lbls, max |-> max]

\* html_helpers.create_tabs: one tab per label, in tabs_order restricted to
\* the labels present (sorted distinct labels when no order is given), each
\* holding the first max_imgs_per_tab images of its label.
create_tabs(imgs, lbls, max_imgs_per_tab, tabs_order) ==
    LET present(l) == l \in Range(lbls)
        tabs == IF tabs_order.some THEN SelectSeq(tabs_order.v, present)
                ELSE unique(lbls)
    IN [i \in 1..Len(tabs) |->
          [label |-> tabs[i],
           imgs |-> Take(Masked(imgs, lbls, tabs[i]), max_imgs_per_tab)]]

\* html_helpers.create_imgs_grid: the first max_images images, each under
\* the label at the same position.
create_imgs_grid(imgs, lbls, max_images) ==
    LET n == Min(Len(Take(imgs, max_images)), Len(Take(lbls, max_images)))
    IN [i \in 1..n |-> [label |-> lbls[i], imgs |-> <<imgs[i]>>]]

\* utils.get_class_representations: the first image of every label that is
\* not ignored, in labels_order restricted to those labels (sorted when no
\* order is given).
get_class_representations(imgs, lbls, ignore_list, labels_order) ==
    LET kept(l) == l \in Range(lbls) /\ l \notin Range(ignore_list)
        keptLbls == SelectSeq(lbls, kept)
        out == IF labels_order.some THEN SelectSeq(labels_order.v, kept)
               ELSE unique(keptLbls)
        first(l) == CHOOSE k \in 1..Len(lbls) :
                        lbls[k] = l /\ \A j \in 1..(k - 1) : lbls[j] # l
    IN [images |-> [i \in 1..Len(out) |-> imgs[first(out[i])]],
        labels |-> out]

\* ------------------------------------------------------------ entry points
\* What a call leaves behind: the exception it ended in ("none" when it
\* returned), the collaborators it invoked, the markup strings it handed to
\* display_html, and the argument objects as they are after the call.
\* Every entry point reads images[0] to pick the dtype of the image array
\* (PIL image or not); both branches build the same array of handles, and
\* the read raises IndexError on an empty sequence. ignore_list is the
\* default or a list of the caller's, never an explicit None.
Raise(e, evs) == [err |-> e, events |-> evs, html |-> <<>>]

\* plot_images numbering the unlabelled images from 1: range(1, n + 1).
plot_images_from_one(imgs, lbls, max_images) ==
    IF Len(imgs) = 0
    THEN Raise("IndexError", <<>>) @@ [images |-> imgs, labels |-> lbls]
    ELSE LET arr == asarray(imgs)
             labs == IF lbls.some THEN asarray(lbls.v)
                     ELSE [i \in 1..Len(arr) |-> IntL(i)]
             markup == create_imgs_grid(arr, labs, max_images)
         IN [err |-> "none",
             events |-> <<Event("create_imgs_grid", arr, labs, max_images),
                          Event("display_html", <<>>, <<>>, 0)>>,
             html |-> <<markup>>,
             images |-> imgs,
             labels |-> lbls]

\* plotting.plot_images
plot_images(imgs, lbls, max_images) ==
    IF Len(imgs) = 0
    THEN Raise("IndexError", <<>>) @@ [images |-> imgs, labels |-> lbls]
    ELSE LET arr == asarray(imgs)
             labs == IF lbls.some THEN asarray(lbls.v) ELSE range0(Len(arr))
             markup == create_imgs_grid(arr, labs, max_images)
         IN [err |-> "none",
             events |-> <<Event("create_imgs_grid", arr, labs, max_images),
                          Event("display_html", <<>>, <<>>, 0)>>,
             html |-> <<markup>>,
             images |-> imgs,
             labels |-> lbls]

\* plot_class_tabs with the body's create_tabs call changed: max_imgs_per_tab
\* and tabs_order as the call passes them on.
tabs_call(imgs, lbls, passed_max, tabs_order, passed_order) ==
    LET frame == [images |-> imgs, labels |-> lbls, order |-> tabs_order]
    IN IF Len(imgs) # Len(lbls) THEN Raise("AssertionError", <<>>) @@ frame
       ELSE IF Len(imgs) = 0 THEN Raise("IndexError", <<>>) @@ frame
       ELSE LET arr == asarray(imgs)
                labs == asarray(lbls)
                markup == create_tabs(arr, labs, passed_max, passed_order)
            IN [err |-> "none",
                events |-> <<Event("create_tabs", arr, labs, passed_max),
                             Event("display_html", <<>>, <<>>, 0)>>,
                html |-> <<markup>>] @@ frame

\* plot_class_tabs leaving max_imgs_per_tab out of the create_tabs call.
plot_class_tabs_default_cap(imgs, lbls, max_imgs_per_tab, tabs_order) ==
    tabs_call(imgs, lbls, DEFAULT_MAX_IMGS_PER_TAB, tabs_order, tabs_order)

\* plot_class_tabs leaving tabs_order out of the create_tabs call.
plot_class_tabs_no_order(imgs, lbls, max_imgs_per_tab, tabs_order) ==
    tabs_call(imgs, lbls, max_imgs_per_tab, tabs_order, None)

\* plotting.plot_class_tabs
plot_class_tabs(imgs, lbls, max_imgs_per_tab, tabs_order) ==
    LET frame == [images |-> imgs, labels |-> lbls, order |-> tabs_order]
    IN IF Len(imgs) # Len(lbls) THEN Raise("AssertionError", <<>>) @@ frame
       ELSE IF Len(imgs) = 0 THEN Raise("IndexError", <<>>) @@ frame
       ELSE LET arr == asarray(imgs)
                labs == asarray(lbls)
                ord == IF tabs_order.some THEN Some(asarray(tabs_order.v))
                       ELSE tabs_order
                markup == create_tabs(arr, labs, max_imgs_per_tab, ord)
            IN [err |-> "none",
                events |-> <<Event("create_tabs", arr, labs, max_imgs_per_tab),
                             Event("display_html", <<>>, <<>>, 0)>>,
                html |-> <<markup>>] @@ frame

\* plot_class_representations with single steps of its body changed: the
\* ignore list and the selection it hands on, the max_images it passes, and
\* the ignore_list object it leaves behind.
reps_call(imgs, lbls, ignore_list, labels_order, passed_ignore, select, use_len, left_ignore) ==
    LET frame == [images |-> imgs, labels |-> lbls,
                  ignore_list |-> left_ignore, order |-> labels_order]
    IN IF Len(imgs) # Len(lbls) THEN Raise("AssertionError", <<>>) @@ frame
       ELSE IF Len(imgs) = 0 THEN Raise("IndexError", <<>>) @@ frame
       ELSE LET arr == asarray(imgs)
                labs == asarray(lbls)
                rep == IF select
                       THEN get_class_representations(arr, labs, passed_ignore, labels_order)
                       ELSE [images |-> arr, labels |-> labs]
                sel == Event("get_class_representations", arr, labs, 0)
                inner == plot_images(rep.images, Some(rep.labels),
                                     IF use_len THEN Len(rep.images)
                                     ELSE DEFAULT_MAX_IMAGES)
            IN [err |-> inner.err,
                events |-> <<sel>> \o inner.events,
                html |-> inner.html] @@ frame

\* plot_class_representations plotting every image, not one per class.
plot_class_representations_no_select(imgs, lbls, ignore_list, labels_order) ==
    reps_call(imgs, lbls, ignore_list, labels_order, ignore_list, FALSE, TRUE, ignore_list)

\* plot_class_representations not handing ignore_list on.
plot_class_representations_no_ignore(imgs, lbls, ignore_list, labels_order) ==
    reps_call(imgs, lbls, ignore_list, labels_order, <<>>, TRUE, TRUE, ignore_list)

\* plot_class_representations calling plot_images without max_images.
plot_class_representations_default_cap(imgs, lbls, ignore_list, labels_order) ==
    reps_call(imgs, lbls, ignore_list, labels_order, ignore_list, TRUE, FALSE, ignore_list)

\* plot_class_representations growing its ignore_list in place
\* (ignore_list += the labels it was given).
plot_class_representations_grows_ignore(imgs, lbls, ignore_list, labels_order) ==
    reps_call(imgs, lbls, ignore_list, labels_order, ignore_list, TRUE, TRUE,
              ignore_list \o lbls)

\* plotting.plot_class_representations
plot_class_representations(imgs, lbls, ignore_list, labels_order) ==
    LET frame == [images |-> imgs, labels |-> lbls,
                  ignore_list |-> ignore_list, order |-> labels_order]
    IN IF Len(imgs) # Len(lbls) THEN Raise("AssertionError", <<>>) @@ frame
       ELSE IF Len(imgs) = 0 THEN Raise("IndexError", <<>>) @@ frame
       ELSE LET arr == asarray(imgs)
                labs == asarray(lbls)
                ign == asarray(ignore_list)
                ord == IF labels_order.some THEN Some(asarray(labels_order.v))
                       ELSE labels_order
                rep == get_class_representations(arr, labs, ign, ord)
                sel == Event("get_class_representations", arr, labs, 0)
                inner == plot_images(rep.images, Some(rep.labels), Len(rep.images))
            IN [err |-> inner.err,
                events |-> <<sel>> \o inner.events,
                html |-> inner.html] @@ frame

\* ------------------------------------------------------------------ inputs
Items(n) == [i \in 1..n |-> i]

SeqsUpTo(S, n) == UNION {[1..k -> S] : k \in 0..n}

LabelSeqs == SeqsUpTo({StrL(n) : n \in LabelNames}, MaxLen)

\* The worked examples of the specification: five images labelled x y x y x,
\* and three images labelled x, '-1', 'unknown'.
ExampleLabels == <<StrL("x"), StrL("y"), StrL("x"), StrL("y"), StrL("x")>>
SentinelLabels == <<StrL("x"), StrL("-1"), StrL("unknown")>>

\* One image per label, for one label more than DEFAULT_MAX_IMAGES.
ManyLabels == [i \in 1..(DEFAULT_MAX_IMAGES + 1) |-> StrL(ManyNames[i])]

\* max_imgs_per_tab / max_images: omitted, or a count from 0 to MaxCap.
CapArgs == {Omitted} \cup {Some(c) : c \in 0..MaxCap}

\* tabs_order / labels_order: omitted, or labels without repetition.
OrderArgs ==
    {None} \cup
    {Some(s) : s \in {<<StrL("x")>>, <<StrL("y"), StrL("x")>>,
                      <<StrL("-1"), StrL("y")>>}}

\* ignore_list: omitted, or a list of the caller's.
IgnoreArgs == {None, Some(<<>>), Some(<<StrL("x")>>)}

\* -------------------------------------------------------------------- state
Init ==
    /\ \/ /\ \E n \in 0..MaxLen : images = Items(n)
          /\ labels \in LabelSeqs
       \/ /\ \E l \in {ExampleLabels, SentinelLabels} :
                /\ images = Items(Len(l))
                /\ labels = l
       \/ /\ images = Items(Len(ManyLabels))
          /\ labels = ManyLabels
    /\ ignore_default = DefaultIgnoreList
    /\ op = "none"
    /\ args = [images |-> images, max |-> 0, order |-> None, ignore_list |-> <<>>,
               ignore_given |-> FALSE, labels |-> None]
    /\ after = [images |-> images, labels |-> labels, order |-> None,
                ignore_list |-> <<>>]
    /\ err = "none"
    /\ events = <<>>
    /\ html = <<>>
    /\ ncalls = 0

Finish(name, a, r, frame) ==
    /\ op' = name
    /\ args' = a
    /\ after' = frame
    /\ images' = frame.images
    /\ labels' = frame.labels
    /\ err' = r.err
    /\ events' = r.events
    /\ html' = r.html
    /\ ncalls' = ncalls + 1

PlotClassTabs ==
    /\ ncalls < MaxCalls
    /\ \E cap \in CapArgs, ord \in OrderArgs :
         LET max == IF cap.some THEN cap.v ELSE DEFAULT_MAX_IMGS_PER_TAB
             r == plot_class_tabs(images, labels, max, ord)
         IN /\ Finish("plot_class_tabs",
                      [images |-> images, max |-> max, order |-> ord, ignore_list |-> <<>>,
                       ignore_given |-> FALSE, labels |-> Some(labels)],
                      r,
                      [images |-> r.images, labels |-> r.labels,
                       order |-> r.order, ignore_list |-> <<>>])
            /\ UNCHANGED ignore_default

PlotImages ==
    /\ ncalls < MaxCalls
    /\ \E cap \in CapArgs, given \in BOOLEAN :
         LET max == IF cap.some THEN cap.v ELSE DEFAULT_MAX_IMAGES
             lbls == IF given THEN Some(labels) ELSE None
             r == plot_images(images, lbls, max)
         IN /\ Finish("plot_images",
                      [images |-> images, max |-> max, order |-> None, ignore_list |-> <<>>,
                       ignore_given |-> FALSE, labels |-> lbls],
                      r,
                      [images |-> r.images,
                       labels |-> IF given THEN r.labels.v ELSE labels,
                       order |-> None, ignore_list |-> <<>>])
            /\ UNCHANGED ignore_default

PlotClassRepresentations ==
    /\ ncalls < MaxCalls
    /\ \E ig \in IgnoreArgs, ord \in OrderArgs :
         LET ignore_list == IF ig.some THEN ig.v ELSE ignore_default
             r == plot_class_representations(images, labels, ignore_list, ord)
         IN /\ Finish("plot_class_representations",
                      [images |-> images, max |-> 0, order |-> ord, ignore_list |-> ignore_list,
                       ignore_given |-> ig.some, labels |-> Some(labels)],
                      r,
                      [images |-> r.images, labels |-> r.labels,
                       order |-> r.order, ignore_list |-> r.ignore_list])
            /\ ignore_default' = IF ig.some THEN ignore_default ELSE r.ignore_list

Next == PlotClassTabs \/ PlotImages \/ PlotClassRepresentations

Spec == Init /\ [][Next]_vars

\* ------------------------------------------------------------- properties
\* Position of a label name in Python's string order.
NameRank(n) == CHOOSE i \in 1..Len(SortedNames) : SortedNames[i] = n

Called == op # "none"
LabelsGiven == args.labels.some
\* The call's images and labels have equal length (labels it was not given
\* are made to fit).
EqualLength == LabelsGiven => Len(args.images) = Len(args.labels.v)
\* Every cell of every markup string handed to the display sink.
Cells == UNION {Range(html[m]) : m \in 1..Len(html)}
\* The labels of the cells displayed, in display order.
Displayed == IF html = <<>> THEN <<>> ELSE [k \in 1..Len(html[1]) |-> html[1][k].label]
\* Positions of the caller's images bearing label l.
Bearing(l) == {k \in 1..Len(labels) : labels[k] = l}
Invoked(fn) == \E k \in 1..Len(events) : events[k].fn = fn
Sorted(s) == \A i, j \in 1..Len(s) : i < j => NameRank(s[i].s) < NameRank(s[j].s)
Restrict(s, S) == LET in(l) == l \in S IN SelectSeq(s, in)

\* C1: every entry point called with labels whose length differs from the
\* images' ends in the precondition error (AssertionError).
C1_MismatchRaises ==
    (Called /\ ~EqualLength) => err = "AssertionError"

\* C2: every call with images and labels of equal length completes without
\* an error.
C2_EqualLengthCompletes ==
    (Called /\ EqualLength) => err = "none"

\* C3: after plot_class_tabs on equal-length inputs every tab holds at most
\* max_imgs_per_tab images, and they are the first images, in input order,
\* among those bearing the tab's label.
C3_TabsCappedPrefix ==
    (op = "plot_class_tabs" /\ EqualLength) =>
        \A tab \in Cells :
            /\ Len(tab.imgs) <= args.max
            /\ Len(tab.imgs) <= Cardinality(Bearing(tab.label))
            /\ \A j \in 1..Len(tab.imgs) :
                 \E k \in Bearing(tab.label) :
                    /\ Cardinality({q \in Bearing(tab.label) : q <= k}) = j
                    /\ tab.imgs[j] = images[k]

\* The specification's example: x: [a, c], y: [b, d] under a cap of 2.
C3_Witness ==
    /\ op = "plot_class_tabs"
    /\ labels = ExampleLabels
    /\ args.max = 2
    /\ html = << <<[label |-> StrL("x"), imgs |-> <<1, 3>>],
                   [label |-> StrL("y"), imgs |-> <<2, 4>>]>> >>

\* C4: after plot_class_representations on equal-length inputs the display
\* holds at most one image per label, the one of smallest index among the
\* images bearing that label.
C4_OneFirstPerLabel ==
    (op = "plot_class_representations" /\ EqualLength) =>
        /\ \A i, j \in 1..Len(Displayed) : Displayed[i] = Displayed[j] => i = j
        /\ \A c \in Cells :
             \E k \in Bearing(c.label) :
                /\ \A q \in Bearing(c.label) : k <= q
                /\ c.imgs = <<images[k]>>

C4_Witness ==
    /\ op = "plot_class_representations"
    /\ labels = ExampleLabels
    /\ html = << <<[label |-> StrL("x"), imgs |-> <<1>>],
                   [label |-> StrL("y"), imgs |-> <<2>>]>> >>

\* C5: no label of the ignore list is displayed by
\* plot_class_representations, and without an ignore_list argument the
\* labels '-1' and 'unknown' are not displayed.
C5_IgnoredNeverShown ==
    op = "plot_class_representations" =>
        /\ \A c \in Cells : c.label \notin Range(args.ignore_list)
        /\ ~args.ignore_given =>
             \A c \in Cells : c.label.s \notin {"-1", "unknown"}

\* The specification's example: labels x, '-1', 'unknown' give [(x, a)].
C5_Witness ==
    /\ op = "plot_class_representations"
    /\ ~args.ignore_given
    /\ ~args.order.some
    /\ labels = SentinelLabels
    /\ html = << <<[label |-> StrL("x"), imgs |-> <<1>>]>> >>

\* C6 as stated: the displayed order is the supplied order restricted to
\* the labels present in the input, or the sorted distinct labels present
\* when no order is supplied.
C6_OrderOfPresentLabels ==
    (op \in {"plot_class_tabs", "plot_class_representations"} /\ err = "none") =>
        IF args.order.some
        THEN Displayed = Restrict(args.order.v, Range(labels))
        ELSE Range(Displayed) = Range(labels) /\ Sorted(Displayed)

\* The labels a call may show: all labels present for plot_class_tabs, the
\* labels present and not ignored for plot_class_representations.
Shown == IF op = "plot_class_representations"
         THEN Range(labels) \ Range(args.ignore_list)
         ELSE Range(labels)

\* C6: on equal-length inputs the displayed order is the supplied order
\* restricted to the labels present in the input and (for
\* plot_class_representations) not in the ignore list, or those labels in
\* sorted order when no order is supplied.
C6_OrderOfShownLabels ==
    (op \in {"plot_class_tabs", "plot_class_representations"} /\ EqualLength) =>
        IF args.order.some
        THEN Displayed = Restrict(args.order.v, Shown)
        ELSE Range(Displayed) = Shown /\ Sorted(Displayed)

C6_Witness ==
    /\ op = "plot_class_tabs"
    /\ args.order = Some(<<StrL("-1"), StrL("y")>>)
    /\ labels = ExampleLabels
    /\ Displayed = <<StrL("y")>>

\* C7: after every call the default ignore list is ['-1', 'unknown'], a call
\* made without ignore_list used exactly that list, and the caller's
\* images, labels, ignore_list and order are as they were before the call.
C7_NoSharedState ==
    /\ ignore_default = <<StrL("-1"), StrL("unknown")>>
    /\ Called =>
         /\ ~args.ignore_given /\ op = "plot_class_representations" =>
              args.ignore_list = <<StrL("-1"), StrL("unknown")>>
         /\ after.images = args.images
         /\ images = args.images
         /\ LabelsGiven => after.labels = args.labels.v /\ labels = args.labels.v
         /\ after.order = args.order
         /\ after.ignore_list = args.ignore_list

\* A second call that relied on the default ignore list and displayed.
C7_Witness ==
    /\ ncalls >= 2
    /\ op = "plot_class_representations"
    /\ ~args.ignore_given
    /\ err = "none"
    /\ "-1" \in {labels[k].s : k \in 1..Len(labels)}

\* C8: plot_images called without labels hands create_imgs_grid the labels
\* 0, 1, ..., n-1, one per image, and every displayed image k (from 0)
\* carries label k.
C8_DefaultLabelsNumbered ==
    (op = "plot_images" /\ ~LabelsGiven) =>
        /\ \A e \in Range(events) :
             e.fn = "create_imgs_grid" =>
                /\ Len(e.labels) = Len(images)
                /\ \A k \in 1..Len(e.labels) :
                     e.labels[k].t = "int" /\ e.labels[k].i = k - 1
        /\ \A m \in 1..Len(html) : \A k \in 1..Len(html[m]) :
             /\ html[m][k].label.t = "int"
             /\ html[m][k].label.i = k - 1
             /\ html[m][k].imgs = <<images[k]>>

C8_Witness ==
    /\ op = "plot_images"
    /\ ~LabelsGiven
    /\ err = "none"
    /\ Len(html) = 1
    /\ Len(html[1]) = 2
    /\ html[1][2].label = IntL(1)

\* C9: a call that ends in an error displayed nothing and invoked no
\* grouping or selection before failing; a call that completes displayed
\* exactly one markup string, after its grouping or selection.
C9_AllOrNothing ==
    Called =>
        /\ err # "none" =>
             /\ html = <<>>
             /\ ~Invoked("create_tabs")
             /\ ~Invoked("get_class_representations")
             /\ ~Invoked("create_imgs_grid")
             /\ ~Invoked("display_html")
        /\ err = "none" =>
             /\ Len(html) = 1
             /\ Len(events) >= 2
             /\ events[Len(events)].fn = "display_html"
             /\ \A k \in 1..(Len(events) - 1) : events[k].fn # "display_html"

====
